---- MODULE Spec2Model ----
(***************************************************************************)
(* Model of trading_calculator.py: the pipeline calculate_trading_results  *)
(* runs on one TradingInputs record, one action per function it calls.     *)
(*                                                                         *)
(* Numbers.  The program computes on Python floats.  The model computes on *)
(* exact rationals [n |-> numerator, d |-> denominator] kept in lowest     *)
(* terms with d > 0, so every formula below is about the real-number value *)
(* of the program's expressions; float rounding is not modelled.  A Python *)
(* float division whose divisor is zero raises ZeroDivisionError; that is   *)
(* modelled as the pipeline stopping in pc = "raised".                      *)
(*                                                                         *)
(* Strings.  The program's messages are Korean text, which the TLA+ lexer  *)
(* does not accept inside strings; each message is rendered by a fixed     *)
(* ASCII string, one per message, joined with " / " as the program does.   *)
(***************************************************************************)
EXTENDS Integers, Sequences, FiniteSets, TLC

VARIABLES
    inputs,               \* the TradingInputs record handed to calculate_trading_results
    pc,                   \* the position inside calculate_trading_results
    risk_amount,
    stop_loss_pct,
    stop_loss_price,
    position_notional,
    position_quantity,
    actual_loss,
    position_leverage,
    effective_leverage,
    required_margin,
    take_profit_results,
    structural_issue,
    overall_judgment,
    result                \* the TradingResults record returned, or NoResult

vars == <<inputs, pc, risk_amount, stop_loss_pct, stop_loss_price,
          position_notional, position_quantity, actual_loss, position_leverage,
          effective_leverage, required_margin, take_profit_results,
          structural_issue, overall_judgment, result>>

----------------------------------------------------------------------------
(* Exact rational arithmetic.                                              *)

RECURSIVE GCD(_, _)
GCD(a, b) == IF b = 0 THEN a ELSE GCD(b, a % b)

Abs(x) == IF x < 0 THEN -x ELSE x

\* n/d in lowest terms with a positive denominator (d # 0)
Rat(n, d) ==
    LET g == GCD(Abs(n), Abs(d))
        s == IF d < 0 THEN -1 ELSE 1
    IN  [n |-> s * (n \div g), d |-> s * (d \div g)]

R(i) == [n |-> i, d |-> 1]

Zero == R(0)

RNeg(a) == [n |-> -a.n, d |-> a.d]

RAdd(a, b) ==
    LET g == GCD(a.d, b.d)
    IN  Rat(a.n * (b.d \div g) + b.n * (a.d \div g), (a.d \div g) * b.d)

RSub(a, b) == RAdd(a, RNeg(b))

RMul(a, b) ==
    LET g1 == GCD(Abs(a.n), b.d)
        g2 == GCD(Abs(b.n), a.d)
    IN  IF a.n = 0 \/ b.n = 0 THEN Zero
        ELSE [n |-> (a.n \div g1) * (b.n \div g2), d |-> (a.d \div g2) * (b.d \div g1)]

\* a / b for b # 0
RDiv(a, b) == RMul(a, IF b.n < 0 THEN [n |-> -b.d, d |-> -b.n] ELSE [n |-> b.d, d |-> b.n])

IsZero(a) == a.n = 0

\* The comparison of an/ad with bn/bd (ad, bd > 0) by integer parts and then by
\* the reciprocals of the fractional parts: -1, 0 or 1.
RECURSIVE Cmp(_, _, _, _)
Cmp(an, ad, bn, bd) ==
    LET qa == an \div ad
        qb == bn \div bd
        ra == an % ad
        rb == bn % bd
    IN  IF qa < qb THEN -1
        ELSE IF qa > qb THEN 1
        ELSE IF ra = 0 /\ rb = 0 THEN 0
        ELSE IF ra = 0 THEN -1
        ELSE IF rb = 0 THEN 1
        ELSE Cmp(bd, rb, ad, ra)

RLt(a, b) == Cmp(a.n, a.d, b.n, b.d) < 0
RLe(a, b) == Cmp(a.n, a.d, b.n, b.d) <= 0
RGt(a, b) == RLt(b, a)
RGe(a, b) == RLe(b, a)

----------------------------------------------------------------------------
(* Module constants.                                                       *)

TAKER_FEE_RATE == Rat(4, 10000)
MIN_LEVERAGE == 3
MAX_LEVERAGE == 150

\* the sentinel "no issues" string of check_structural_issues and judge_overall
NO_ISSUE == "no issues"
SL_ADJUST == "SL adjustment needed"
SIZE_ADJUST == "size adjustment needed"

----------------------------------------------------------------------------
(* The calculation functions.  A function that can divide by zero returns  *)
(* Raised (the ZeroDivisionError) in that case and a record of its return  *)
(* values otherwise.                                                       *)

Raised == [raised |-> TRUE]

calculate_risk_amount(total_asset, risk_ratio) ==
    RMul(total_asset, RDiv(risk_ratio, R(100)))

\* calculate_stop_loss taking the width of the stop whatever its side
calculate_stop_loss_Abs(direction, entry_price, stop_loss) ==
    IF IsZero(entry_price) THEN Raised
    ELSE LET pct == RMul(RDiv(RSub(entry_price, stop_loss), entry_price), R(100))
         IN  [raised |-> FALSE,
              stop_loss_pct |-> IF RLt(pct, Zero) THEN RNeg(pct) ELSE pct,
              stop_loss_price |-> stop_loss]

calculate_stop_loss(direction, entry_price, stop_loss) ==
    IF IsZero(entry_price) THEN Raised
    ELSE IF direction = "LONG"
         THEN [raised |-> FALSE,
               stop_loss_pct |-> RMul(RDiv(RSub(entry_price, stop_loss), entry_price), R(100)),
               stop_loss_price |-> stop_loss]
         ELSE [raised |-> FALSE,
               stop_loss_pct |-> RMul(RDiv(RSub(stop_loss, entry_price), entry_price), R(100)),
               stop_loss_price |-> stop_loss]

PriceDiff(direction, entry_price, stop_loss) ==
    IF direction = "LONG" THEN RSub(entry_price, stop_loss)
                          ELSE RSub(stop_loss, entry_price)

\* FeePerUnit charging the entry fee only
FeePerUnit_EntryOnly(entry_price, stop_loss) ==
    RMul(entry_price, TAKER_FEE_RATE)

FeePerUnit(entry_price, stop_loss) ==
    RMul(RAdd(entry_price, stop_loss), TAKER_FEE_RATE)

calculate_position_size(direction, entry_price, stop_loss, risk) ==
    LET price_diff == PriceDiff(direction, entry_price, stop_loss)
        fee_per_unit == FeePerUnit(entry_price, stop_loss)
        divisor == RAdd(price_diff, fee_per_unit)
    IN  IF IsZero(divisor) THEN Raised
        ELSE LET quantity == RDiv(risk, divisor)
             IN  [raised |-> FALSE,
                  notional |-> RMul(entry_price, quantity),
                  quantity |-> quantity]

calculate_actual_loss(direction, entry_price, stop_loss, notional, quantity) ==
    LET price_loss == IF direction = "LONG"
                      THEN RMul(RSub(entry_price, stop_loss), quantity)
                      ELSE RMul(RSub(stop_loss, entry_price), quantity)
        entry_fee == RMul(notional, TAKER_FEE_RATE)
        exit_fee == RMul(RMul(stop_loss, quantity), TAKER_FEE_RATE)
    IN  RAdd(RAdd(price_loss, entry_fee), exit_fee)

\* OptimalLeverage without the raise to MIN_LEVERAGE
OptimalLeverage_NoFloor(ratio) ==
    IF RLe(ratio, R(MAX_LEVERAGE)) THEN ratio ELSE R(MAX_LEVERAGE)

\* OptimalLeverage without the cap at MAX_LEVERAGE
OptimalLeverage_NoCap(ratio) ==
    IF RLt(ratio, R(MIN_LEVERAGE)) THEN R(MIN_LEVERAGE) ELSE ratio

\* the leverage chosen from notional / min_margin
OptimalLeverage(ratio) ==
    IF RLe(ratio, R(MAX_LEVERAGE))
    THEN IF RLt(ratio, R(MIN_LEVERAGE)) THEN R(MIN_LEVERAGE) ELSE ratio
    ELSE R(MAX_LEVERAGE)

\* calculate_leverage with a guarded min_margin: a zero min_margin gives MAX_LEVERAGE
calculate_leverage_Guarded(notional, risk, total_asset, margin_usage_ratio) ==
    LET min_margin == RMul(total_asset, RDiv(margin_usage_ratio, R(100)))
        leverage == IF IsZero(min_margin) THEN R(MAX_LEVERAGE)
                    ELSE OptimalLeverage(RDiv(notional, min_margin))
    IN  [raised |-> FALSE,
         leverage |-> leverage,
         effective_leverage |-> IF IsZero(total_asset) THEN Zero
                                ELSE RDiv(notional, total_asset),
         required_margin |-> RDiv(notional, leverage)]

\* calculate_leverage with required_margin taken before the leverage is clamped
calculate_leverage_MarginFirst(notional, risk, total_asset, margin_usage_ratio) ==
    LET min_margin == RMul(total_asset, RDiv(margin_usage_ratio, R(100)))
    IN  IF IsZero(min_margin) THEN Raised
        ELSE [raised |-> FALSE,
              leverage |-> OptimalLeverage(RDiv(notional, min_margin)),
              effective_leverage |-> RDiv(notional, total_asset),
              required_margin |-> min_margin]

calculate_leverage(notional, risk, total_asset, margin_usage_ratio) ==
    LET min_margin == RMul(total_asset, RDiv(margin_usage_ratio, R(100)))
    IN  IF IsZero(min_margin) THEN Raised
        ELSE LET leverage == OptimalLeverage(RDiv(notional, min_margin))
             IN  IF IsZero(leverage) \/ IsZero(total_asset) THEN Raised
                 ELSE [raised |-> FALSE,
                       leverage |-> leverage,
                       effective_leverage |-> RDiv(notional, total_asset),
                       required_margin |-> RDiv(notional, leverage)]

\* the fee-inclusive loss at the stop, computed once for all targets
ActualLossWithFee(direction, entry_price, stop_loss, notional, quantity) ==
    LET entry_fee == RMul(notional, TAKER_FEE_RATE)
        sl_exit_fee == RMul(RMul(stop_loss, quantity), TAKER_FEE_RATE)
        price_loss == IF direction = "LONG"
                      THEN RMul(RSub(entry_price, stop_loss), quantity)
                      ELSE RMul(RSub(stop_loss, entry_price), quantity)
    IN  RAdd(RAdd(price_loss, entry_fee), sl_exit_fee)

\* RrRatio guarding only against a zero stop_loss_pct
RrRatio_ZeroGuard(profit_pct, sl_pct) ==
    IF ~IsZero(sl_pct) THEN RDiv(profit_pct, sl_pct) ELSE Zero

RrRatio(profit_pct, sl_pct) ==
    IF RGt(sl_pct, Zero) THEN RDiv(profit_pct, sl_pct) ELSE Zero

ActualRr(net_profit, actual_loss_with_fee) ==
    IF RGt(actual_loss_with_fee, Zero) THEN RDiv(net_profit, actual_loss_with_fee) ELSE Zero

\* the body of the loop over the targets, for one target
TargetResult(direction, entry_price, take_profit, notional, quantity, sl_pct, actual_loss_with_fee) ==
    LET profit_pct == IF direction = "LONG"
                      THEN RMul(RDiv(RSub(take_profit, entry_price), entry_price), R(100))
                      ELSE RMul(RDiv(RSub(entry_price, take_profit), entry_price), R(100))
        gross_profit == IF direction = "LONG"
                        THEN RMul(RSub(take_profit, entry_price), quantity)
                        ELSE RMul(RSub(entry_price, take_profit), quantity)
        entry_fee == RMul(notional, TAKER_FEE_RATE)
        tp_exit_fee == RMul(RMul(take_profit, quantity), TAKER_FEE_RATE)
        net_profit == RSub(RSub(gross_profit, entry_fee), tp_exit_fee)
    IN  [rr_ratio |-> RrRatio(profit_pct, sl_pct),
         actual_rr |-> ActualRr(net_profit, actual_loss_with_fee),
         profit |-> net_profit]

\* TargetKeys leaving out the last target
TargetKeys_SkipLast(take_profits) == 1..(Len(take_profits) - 1)

\* the keys enumerate(take_profits, start=1) gives
TargetKeys(take_profits) == 1..Len(take_profits)

calculate_rr_and_profit(direction, entry_price, stop_loss, take_profits, notional, quantity, sl_pct) ==
    LET actual_loss_with_fee ==
            ActualLossWithFee(direction, entry_price, stop_loss, notional, quantity)
    IN  IF take_profits # <<>> /\ IsZero(entry_price) THEN Raised
        ELSE [raised |-> FALSE,
              results |-> [idx \in TargetKeys(take_profits) |->
                             TargetResult(direction, entry_price, take_profits[idx],
                                          notional, quantity, sl_pct, actual_loss_with_fee)]]

----------------------------------------------------------------------------
(* Structural issues and the overall judgment.                             *)

\* " / ".join(items) for a non-empty list
RECURSIVE Join(_)
Join(items) ==
    IF Len(items) = 1 THEN items[1]
    ELSE items[1] \o " / " \o Join(Tail(items))

StopIssue(direction) ==
    IF direction = "LONG" THEN "stop loss is above or equal to entry"
                          ELSE "stop loss is below or equal to entry"

EntryIssue(direction, idx) ==
    IF direction = "LONG" THEN "TP" \o ToString(idx) \o " is below or equal to entry"
                          ELSE "TP" \o ToString(idx) \o " is above or equal to entry"

PrevIssue(direction, idx) ==
    IF direction = "LONG" THEN "TP" \o ToString(idx) \o " is below or equal to previous TP"
                          ELSE "TP" \o ToString(idx) \o " is above or equal to previous TP"

\* NotBeyond accepting a target equal to the reference
NotBeyond_Strict(direction, take_profit, reference) ==
    IF direction = "LONG" THEN RLt(take_profit, reference)
                          ELSE RGt(take_profit, reference)

\* the test both loops apply to a target against entry_price and against prev_tp
NotBeyond(direction, take_profit, reference) ==
    IF direction = "LONG" THEN RLe(take_profit, reference)
                          ELSE RGe(take_profit, reference)

StopNotBehind(direction, entry_price, stop_loss) ==
    IF direction = "LONG" THEN RGe(stop_loss, entry_price)
                          ELSE RLe(stop_loss, entry_price)

\* the issues the loop appends from target idx on, prev_tp being the previous price
RECURSIVE TargetIssues(_, _, _, _, _)
TargetIssues(direction, entry_price, take_profits, idx, prev_tp) ==
    IF idx > Len(take_profits) THEN <<>>
    ELSE LET take_profit == take_profits[idx]
         IN  (IF NotBeyond(direction, take_profit, entry_price)
              THEN <<EntryIssue(direction, idx)>> ELSE <<>>)
             \o (IF NotBeyond(direction, take_profit, prev_tp)
                 THEN <<PrevIssue(direction, idx)>> ELSE <<>>)
             \o TargetIssues(direction, entry_price, take_profits, idx + 1, take_profit)

check_structural_issues(direction, entry_price, stop_loss, take_profits) ==
    LET issues == (IF StopNotBehind(direction, entry_price, stop_loss)
                   THEN <<StopIssue(direction)>> ELSE <<>>)
                  \o TargetIssues(direction, entry_price, take_profits, 1, entry_price)
    IN  IF issues = <<>> THEN NO_ISSUE ELSE Join(issues)

\* judge_overall asking for a size adjustment from MAX_LEVERAGE on
judge_overall_AtCap(leverage, sl_pct, issue) ==
    LET judgments ==
            (IF issue # NO_ISSUE THEN <<SL_ADJUST>> ELSE <<>>)
            \o (IF RGe(leverage, R(MAX_LEVERAGE)) THEN <<SIZE_ADJUST>>
                ELSE IF RLt(leverage, R(MIN_LEVERAGE)) /\ RLt(sl_pct, R(1))
                     THEN <<SIZE_ADJUST>> ELSE <<>>)
            \o (IF RGt(sl_pct, R(5)) THEN <<SL_ADJUST>> ELSE <<>>)
    IN  IF judgments = <<>> THEN NO_ISSUE ELSE Join(judgments)

judge_overall(leverage, sl_pct, issue) ==
    LET judgments ==
            (IF issue # NO_ISSUE THEN <<SL_ADJUST>> ELSE <<>>)
            \o (IF RGt(leverage, R(MAX_LEVERAGE)) THEN <<SIZE_ADJUST>>
                ELSE IF RLt(leverage, R(MIN_LEVERAGE)) /\ RLt(sl_pct, R(1))
                     THEN <<SIZE_ADJUST>> ELSE <<>>)
            \o (IF RGt(sl_pct, R(5)) THEN <<SL_ADJUST>> ELSE <<>>)
    IN  IF judgments = <<>> THEN NO_ISSUE ELSE Join(judgments)

\* the TradingResults record calculate_trading_results builds
TradingResults(slp, slprice, loss, notional, quantity, leverage, eff, tpr, issue, margin, judgment) ==
    [returned |-> TRUE,
     stop_loss_pct |-> slp,
     stop_loss_price |-> slprice,
     actual_loss_amount |-> loss,
     position_notional |-> notional,
     position_quantity |-> quantity,
     position_leverage |-> leverage,
     effective_leverage |-> eff,
     take_profit_results |-> tpr,
     structural_issue |-> issue,
     required_margin |-> margin,
     overall_judgment |-> judgment,
     actual_entry_notional |-> notional,
     actual_entry_quantity |-> quantity,
     actual_entry_leverage |-> leverage]

----------------------------------------------------------------------------
(* The inputs explored.                                                    *)

MaxTargets == 2      \* the longest take_profits list
MaxStep == 2         \* stops and targets lie within MaxStep of BasePrice
BasePrice == 100

\* total_asset: 0 is the smallest value the form accepts
TotalAssets == {R(0), R(100)}
\* risk_ratio: the two ends of the form's slider, and 0 (no risk budget)
RiskRatios == {R(0), R(5), R(20)}
\* margin_usage_ratio: 0 (unvalidated by the calculation) and the default
MarginRatios == {R(0), R(60)}
Directions == {"LONG", "SHORT"}
\* 2499 and 2501 are the smallest whole prices with price_diff + fee_per_unit = 0
EntryPrices == {R(0), R(BasePrice), R(2499)}
NearPrices == {R(BasePrice + i) : i \in (0 - MaxStep)..MaxStep}
StopPrices == {R(0), R(2501)} \cup NearPrices
TargetLists == UNION {[1..k -> NearPrices] : k \in 0..MaxTargets}

Unset == [n |-> 0, d |-> 0]
NoResult == [returned |-> FALSE]

TradingInputs ==
    [total_asset : TotalAssets, risk_ratio : RiskRatios, direction : Directions,
     entry_price : EntryPrices, stop_loss : StopPrices, take_profits : TargetLists,
     margin_usage_ratio : MarginRatios]

----------------------------------------------------------------------------
(* calculate_trading_results, one action per call it makes.                *)

Init ==
    /\ inputs \in TradingInputs
    /\ pc = "risk_amount"
    /\ risk_amount = Unset
    /\ stop_loss_pct = Unset
    /\ stop_loss_price = Unset
    /\ position_notional = Unset
    /\ position_quantity = Unset
    /\ actual_loss = Unset
    /\ position_leverage = Unset
    /\ effective_leverage = Unset
    /\ required_margin = Unset
    /\ take_profit_results = <<>>
    /\ structural_issue = ""
    /\ overall_judgment = ""
    /\ result = NoResult

RiskAmount ==
    /\ pc = "risk_amount"
    /\ risk_amount' = calculate_risk_amount(inputs.total_asset, inputs.risk_ratio)
    /\ pc' = "stop_loss"
    /\ UNCHANGED <<inputs, stop_loss_pct, stop_loss_price, position_notional,
                   position_quantity, actual_loss, position_leverage, effective_leverage,
                   required_margin, take_profit_results, structural_issue,
                   overall_judgment, result>>

StopLoss ==
    /\ pc = "stop_loss"
    /\ LET r == calculate_stop_loss(inputs.direction, inputs.entry_price, inputs.stop_loss)
       IN  IF r.raised
           THEN /\ pc' = "raised"
                /\ UNCHANGED <<stop_loss_pct, stop_loss_price>>
           ELSE /\ pc' = "position_size"
                /\ stop_loss_pct' = r.stop_loss_pct
                /\ stop_loss_price' = r.stop_loss_price
    /\ UNCHANGED <<inputs, risk_amount, position_notional,
                   position_quantity, actual_loss, position_leverage, effective_leverage,
                   required_margin, take_profit_results, structural_issue,
                   overall_judgment, result>>

PositionSize ==
    /\ pc = "position_size"
    /\ LET r == calculate_position_size(inputs.direction, inputs.entry_price,
                                        inputs.stop_loss, risk_amount)
       IN  IF r.raised
           THEN /\ pc' = "raised"
                /\ UNCHANGED <<position_notional, position_quantity>>
           ELSE /\ pc' = "actual_loss"
                /\ position_notional' = r.notional
                /\ position_quantity' = r.quantity
    /\ UNCHANGED <<inputs, risk_amount, stop_loss_pct, stop_loss_price,
                   actual_loss, position_leverage, effective_leverage,
                   required_margin, take_profit_results, structural_issue,
                   overall_judgment, result>>

ActualLoss ==
    /\ pc = "actual_loss"
    /\ actual_loss' = calculate_actual_loss(inputs.direction, inputs.entry_price,
                                            inputs.stop_loss, position_notional,
                                            position_quantity)
    /\ pc' = "leverage"
    /\ UNCHANGED <<inputs, risk_amount, stop_loss_pct, stop_loss_price, position_notional,
                   position_quantity, position_leverage, effective_leverage,
                   required_margin, take_profit_results, structural_issue,
                   overall_judgment, result>>

Leverage ==
    /\ pc = "leverage"
    /\ LET r == calculate_leverage(position_notional, risk_amount, inputs.total_asset,
                                   inputs.margin_usage_ratio)
       IN  IF r.raised
           THEN /\ pc' = "raised"
                /\ UNCHANGED <<position_leverage, effective_leverage, required_margin>>
           ELSE /\ pc' = "rr_and_profit"
                /\ position_leverage' = r.leverage
                /\ effective_leverage' = r.effective_leverage
                /\ required_margin' = r.required_margin
    /\ UNCHANGED <<inputs, risk_amount, stop_loss_pct, stop_loss_price, position_notional,
                   position_quantity, actual_loss, take_profit_results, structural_issue,
                   overall_judgment, result>>

RrAndProfit ==
    /\ pc = "rr_and_profit"
    /\ LET r == calculate_rr_and_profit(inputs.direction, inputs.entry_price,
                                        inputs.stop_loss, inputs.take_profits,
                                        position_notional, position_quantity, stop_loss_pct)
       IN  IF r.raised
           THEN /\ pc' = "raised"
                /\ UNCHANGED take_profit_results
           ELSE /\ pc' = "structural_issues"
                /\ take_profit_results' = r.results
    /\ UNCHANGED <<inputs, risk_amount, stop_loss_pct, stop_loss_price, position_notional,
                   position_quantity, actual_loss, position_leverage, effective_leverage,
                   required_margin, structural_issue, overall_judgment, result>>

StructuralIssues ==
    /\ pc = "structural_issues"
    /\ structural_issue' = check_structural_issues(inputs.direction, inputs.entry_price,
                                                   inputs.stop_loss, inputs.take_profits)
    /\ pc' = "judge_overall"
    /\ UNCHANGED <<inputs, risk_amount, stop_loss_pct, stop_loss_price, position_notional,
                   position_quantity, actual_loss, position_leverage, effective_leverage,
                   required_margin, take_profit_results, overall_judgment, result>>

JudgeOverall ==
    /\ pc = "judge_overall"
    /\ overall_judgment' = judge_overall(position_leverage, stop_loss_pct, structural_issue)
    /\ pc' = "return"
    /\ UNCHANGED <<inputs, risk_amount, stop_loss_pct, stop_loss_price, position_notional,
                   position_quantity, actual_loss, position_leverage, effective_leverage,
                   required_margin, take_profit_results, structural_issue, result>>

Return ==
    /\ pc = "return"
    /\ result' = TradingResults(stop_loss_pct, stop_loss_price, actual_loss,
                                position_notional, position_quantity, position_leverage,
                                effective_leverage, take_profit_results, structural_issue,
                                required_margin, overall_judgment)
    /\ pc' = "returned"
    /\ UNCHANGED <<inputs, risk_amount, stop_loss_pct, stop_loss_price, position_notional,
                   position_quantity, actual_loss, position_leverage, effective_leverage,
                   required_margin, take_profit_results, structural_issue,
                   overall_judgment>>

Next ==
    \/ RiskAmount
    \/ StopLoss
    \/ PositionSize
    \/ ActualLoss
    \/ Leverage
    \/ RrAndProfit
    \/ StructuralIssues
    \/ JudgeOverall
    \/ Return

Spec == Init /\ [][Next]_vars

----------------------------------------------------------------------------
(* Properties.  The inputs explored are whole numbers, so the properties   *)
(* restate the program's quantities from the inputs' integers.             *)

ta == inputs.total_asset.n
rr == inputs.risk_ratio.n
mur == inputs.margin_usage_ratio.n
entry == inputs.entry_price.n
stop == inputs.stop_loss.n
tps == inputs.take_profits
IsLong == inputs.direction = "LONG"

\* entry_price - stop_loss for LONG, stop_loss - entry_price for SHORT
Gap == IF IsLong THEN entry - stop ELSE stop - entry

\* some divisor of the calculation is exactly zero: entry_price,
\* price_diff + fee_per_unit (times 2500), or min_margin (times 100)
ZeroDivisor ==
    \/ entry = 0
    \/ 2500 * Gap + (entry + stop) = 0
    \/ ta * mur = 0

\* min_margin = total_asset x margin_usage_ratio / 100
MinMargin == Rat(ta * mur, 100)

\* needle occurs in text
Contains(text, needle) ==
    \E i \in 1..(Len(text) - Len(needle) + 1) :
        SubSeq(text, i, i + Len(needle) - 1) = needle

\* the prices are strictly ordered from the stop through every target
StrictlyOrdered ==
    IF IsLong
    THEN /\ stop < entry
         /\ \A i \in 1..Len(tps) : (IF i = 1 THEN entry ELSE tps[i - 1].n) < tps[i].n
    ELSE /\ stop > entry
         /\ \A i \in 1..Len(tps) : (IF i = 1 THEN entry ELSE tps[i - 1].n) > tps[i].n

\* C1: every returned result has 3 <= position_leverage <= 150.
C1_LeverageInRange ==
    result.returned =>
        /\ RGe(result.position_leverage, R(3))
        /\ RLe(result.position_leverage, R(150))

\* C1 witness: a misconfigured stop gave a negative notional and the leverage is 3.
C1_Witness ==
    /\ result.returned
    /\ RLt(result.position_notional, Zero)
    /\ result.position_leverage = R(3)

C3_BothRatiosZero ==
    (result.returned /\ RLe(result.stop_loss_pct, Zero)) =>
        \A i \in DOMAIN result.take_profit_results :
            /\ result.take_profit_results[i].rr_ratio = Zero
            /\ result.take_profit_results[i].actual_rr = Zero

\* C3 amended: with stop_loss_pct <= 0 every target has rr_ratio = 0, while actual_rr
\* is profit / actual_loss_amount when actual_loss_amount > 0 and 0 otherwise.
C3_RrRatioZero ==
    (result.returned /\ RLe(result.stop_loss_pct, Zero)) =>
        \A i \in DOMAIN result.take_profit_results :
            LET t == result.take_profit_results[i]
            IN  /\ t.rr_ratio = Zero
                /\ IF RGt(result.actual_loss_amount, Zero)
                   THEN RMul(t.actual_rr, result.actual_loss_amount) = t.profit
                   ELSE t.actual_rr = Zero

\* C3 witness: a negative stop_loss_pct with a target whose actual_rr is not 0.
C3_Witness ==
    /\ result.returned
    /\ RLt(result.stop_loss_pct, Zero)
    /\ \E i \in DOMAIN result.take_profit_results :
           /\ result.take_profit_results[i].rr_ratio = Zero
           /\ result.take_profit_results[i].actual_rr # Zero

\* C4: once the position is sized, the fee-inclusive loss at the stop equals
\* total_asset x risk_ratio / 100.
C4_LossEqualsRisk ==
    /\ actual_loss # Unset => actual_loss = Rat(ta * rr, 100)
    /\ result.returned => result.actual_loss_amount = Rat(ta * rr, 100)

\* C4 witness: a SHORT position with a positive risk budget was sized and its loss computed.
C4_Witness ==
    /\ actual_loss # Unset
    /\ ~IsLong
    /\ stop > entry
    /\ ta * rr > 0
    /\ RGt(position_quantity, Zero)

\* C5: structural_issue is the sentinel exactly when the prices are strictly ordered
\* from the stop through every target.
C5_SentinelIffOrdered ==
    structural_issue # "" => (structural_issue = NO_ISSUE <=> StrictlyOrdered)

\* C5 witness: LONG, stop below entry, both targets above entry, the second below
\* the first: only the second target's ordering is flagged.
C5_Witness ==
    /\ IsLong
    /\ stop < entry
    /\ Len(tps) = 2
    /\ entry < tps[2].n
    /\ tps[2].n < tps[1].n
    /\ structural_issue = "TP2 is below or equal to previous TP"

\* C6: stop_loss_pct > 0 exactly when the stop is on the losing side of entry; a
\* stop_loss_pct <= 0 reaches the result as computed, with a structural issue and
\* the stop-loss adjustment tag in overall_judgment.
C6_StopSide ==
    /\ (stop_loss_pct # Unset /\ entry > 0) => (RGt(stop_loss_pct, Zero) <=> Gap > 0)
    /\ (result.returned /\ entry > 0) => result.stop_loss_pct = Rat(100 * Gap, entry)
    /\ (result.returned /\ entry > 0 /\ RLe(result.stop_loss_pct, Zero)) =>
           /\ result.structural_issue # NO_ISSUE
           /\ Contains(result.overall_judgment, SL_ADJUST)

\* C6 witness: a SHORT stop below entry gave a negative stop_loss_pct in the result.
C6_Witness ==
    /\ result.returned
    /\ ~IsLong
    /\ stop < entry
    /\ RLt(result.stop_loss_pct, Zero)
    /\ Contains(result.overall_judgment, SL_ADJUST)

\* C7: in every returned result required_margin x position_leverage = position_notional.
C7_MarginTimesLeverage ==
    result.returned =>
        RMul(result.required_margin, result.position_leverage) = result.position_notional

\* C7 witness: results with the leverage raised to 3 (and a margin that is not 0).
C7_Witness ==
    /\ result.returned
    /\ result.position_leverage = R(3)
    /\ RGt(result.position_notional, Zero)
    /\ RLt(result.required_margin, MinMargin)

\* C8: take_profit_results has exactly the keys 1..N, key i holding the i-th target's
\* result; an empty take_profits gives an empty mapping and raises nothing by itself.
C8_KeysOneToN ==
    /\ pc \in {"structural_issues", "judge_overall", "return", "returned"} =>
           /\ DOMAIN take_profit_results = 1..Len(tps)
           /\ \A i \in 1..Len(tps) :
                  take_profit_results[i].profit =
                      RMul(position_quantity,
                           Rat(2500 * (IF IsLong THEN tps[i].n - entry ELSE entry - tps[i].n)
                               - (entry + tps[i].n), 2500))
    /\ result.returned => result.take_profit_results = take_profit_results
    /\ (result.returned /\ tps = <<>>) => result.take_profit_results = <<>>
    /\ (tps = <<>> /\ ~ZeroDivisor) => pc # "raised"

\* C8 witness: a result returned for an empty take_profits.
C8_Witness ==
    /\ result.returned
    /\ tps = <<>>
    /\ result.take_profit_results = <<>>
    /\ result.structural_issue = NO_ISSUE

\* C9: with min_margin > 0, a notional above 150 x min_margin gives leverage 150, the
\* notional of the sizing step and required_margin > min_margin; a notional within
\* [3, 150] x min_margin gives required_margin = min_margin.
C9_CapKeepsNotional ==
    (result.returned /\ RGt(MinMargin, Zero)) =>
        /\ RGt(result.position_notional, RMul(R(150), MinMargin)) =>
               /\ result.position_leverage = R(150)
               /\ result.position_notional = RMul(inputs.entry_price, result.position_quantity)
               /\ result.actual_entry_notional = result.position_notional
               /\ RGt(result.required_margin, MinMargin)
        /\ (/\ RGe(result.position_notional, RMul(R(3), MinMargin))
            /\ RLe(result.position_notional, RMul(R(150), MinMargin))) =>
               result.required_margin = MinMargin

\* C9 witness: a notional above 150 x min_margin, reported with leverage 150.
C9_Witness ==
    /\ result.returned
    /\ RGt(MinMargin, Zero)
    /\ RGt(result.position_notional, RMul(R(150), MinMargin))
    /\ result.position_leverage = R(150)
    /\ RGt(result.required_margin, MinMargin)

\* C10: overall_judgment never holds the size-adjustment tag, and is the sentinel
\* exactly when structural_issue is the sentinel and stop_loss_pct <= 5.
C10_NoSizeTag ==
    result.returned =>
        /\ ~Contains(result.overall_judgment, SIZE_ADJUST)
        /\ result.overall_judgment = NO_ISSUE <=>
               (result.structural_issue = NO_ISSUE /\ RLe(result.stop_loss_pct, R(5)))

\* C10 witness: leverage capped at 150 and the judgment carries no size tag.
C10_Witness ==
    /\ result.returned
    /\ result.position_leverage = R(150)
    /\ result.overall_judgment = SL_ADJUST

====
